---- MODULE Spec2Model ----
(***************************************************************************)
(* The availability / assignment core of the Giggle API                    *)
(* (src/backend/app.py): the tables gigs, gents, gig_gent and              *)
(* availability, the request handlers set_availability, get_availability,  *)
(* update_gig and create_gig run one at a time (Spec), and two             *)
(* set_availability requests run concurrently, each in its own session     *)
(* (SpecConc).                                                             *)
(*                                                                         *)
(* The database is the default one (DB_URL = sqlite:///app.db): SQLite     *)
(* does not enforce FOREIGN KEY clauses unless PRAGMA foreign_keys is set, *)
(* which the program never does; PRIMARY KEY and UNIQUE are enforced.      *)
(* No route creates or deletes a gent; delete_gig is left out.             *)
(***************************************************************************)
EXTENDS Integers, Sequences, FiniteSets, TLC

VARIABLES
    gigs,       \* ids of the rows of table gigs
    gig_gent,   \* rows <<gig_id, gent_id>> of the association table
    avail,      \* rows [gig_id, gent_id, status] of table availability
    outbox,     \* change events broadcast to gents' connections so far
    last,       \* the request handled last and its response
    calls,      \* number of requests begun so far
    written,    \* history: status last written per pair by set_availability
    pc,         \* SpecConc: position of each concurrent request
    req,        \* SpecConc: the request each session is handling
    snap,       \* SpecConc: what each session has read and decided
    base,       \* SpecConc history: committed tables when the batch began
    batch       \* SpecConc history: requests begun since then

vars == <<gigs, gig_gent, avail, outbox, last, calls, written,
          pc, req, snap, base, batch>>

concVars == <<pc, req, snap, base, batch>>

----------------------------------------------------------------------------
(* Bounds and program constants *)

\* requests begun in one run
MaxCalls == 3

\* seed_once creates four gents ...
NumGents == 4

\* ... and three gigs
NumGigs == 3

Gents == 1..NumGents

\* actor_gent_id: Optional[int] = None
NoActor == 0

\* class AvailabilityStatus
Status == {"no_reply", "available", "unavailable", "assigned"}

\* gig ids a request may name: a seeded gig and the first id not yet used
GigArgs == {1, NumGigs + 1}

\* gent ids a request may name: seeded gents and one id of no gent
GentArgs == {1, 2, NumGents + 1}

ActorArgs == {NoActor} \cup GentArgs

\* GentORM.name as ASCII codes (SQLite orders TEXT bytewise)
GentName(id) ==
    CASE id = 1 -> <<65,108,105,99,101,32,65,114,99,104,101,114>>
      [] id = 2 -> <<66,111,98,98,121,32,66,97,110,107,115>>
      [] id = 3 -> <<67,104,97,114,108,105,101,32,67,104,101,110>>
      [] id = 4 -> <<68,105,110,97,32,68,105,97,122>>

\* rosters given by seed_once: g1 = [a, c], g2 = [b, d], g3 = [a, b, d]
seed_once ==
    {<<1, 1>>, <<1, 3>>, <<2, 2>>, <<2, 4>>, <<3, 1>>, <<3, 2>>, <<3, 4>>}

----------------------------------------------------------------------------
(* Helpers *)

\* gig.gents as ids
RosterOf(gg, g) == {p \in Gents : <<g, p>> \in gg}

\* the availability rows of one pair
FindAvail(av, g, p) == {r \in av : r.gig_id = g /\ r.gent_id = p}

\* status of a pair, a missing row read as no_reply
StatusOf(av, g, p) ==
    IF FindAvail(av, g, p) = {} THEN "no_reply"
    ELSE (CHOOSE r \in FindAvail(av, g, p) : TRUE).status

AuthorizeAnyGent(role, actor, gent, status) ==
    IF role = "gent" /\ status = "assigned" THEN "Only managers can assign"
    ELSE "ok"

AuthorizeSelfAssign(role, actor, gent, status) ==
    IF role = "gent" /\ (actor = NoActor \/ actor # gent)
    THEN "Gents can only update their own availability"
    ELSE "ok"

\* the permission checks of set_availability: "ok" or the 403's detail
Authorize(role, actor, gent, status) ==
    IF role = "gent"
    THEN IF actor = NoActor \/ actor # gent
         THEN "Gents can only update their own availability"
         ELSE IF status = "assigned" THEN "Only managers can assign"
         ELSE "ok"
    ELSE "ok"

\* the upsert of the availability row
Upsert(av, g, p, s) ==
    IF FindAvail(av, g, p) = {}
    THEN av \cup {[gig_id |-> g, gent_id |-> p, status |-> s]}
    ELSE (av \ FindAvail(av, g, p))
         \cup {[r EXCEPT !.status = s] : r \in FindAvail(av, g, p)}

SyncToggles(gg, g, p, s) ==
    IF p \notin Gents THEN gg
    ELSE IF s = "assigned"
         THEN IF <<g, p>> \in gg THEN gg \ {<<g, p>>} ELSE gg \cup {<<g, p>>}
    ELSE gg \ {<<g, p>>}

SyncClearsRoster(gg, g, p, s) ==
    IF p \notin Gents THEN gg
    ELSE IF s = "assigned" /\ <<g, p>> \notin gg THEN gg \cup {<<g, p>>}
    ELSE IF s # "assigned" /\ <<g, p>> \in gg
         THEN {row \in gg : row[1] # g}
    ELSE gg

\* membership of gent p in gig g made to follow status s
sync_assignment_with_availability(gg, g, p, s) ==
    IF p \notin Gents THEN gg
    ELSE LET is_member == <<g, p>> \in gg
         IN  IF s = "assigned" /\ ~is_member THEN gg \cup {<<g, p>>}
             ELSE IF s # "assigned" /\ is_member THEN gg \ {<<g, p>>}
             ELSE gg

\* ids among `ids` of no gent
ensure_gent_ids_exist(ids) == ids \ Gents

RECURSIVE LexLess(_, _)
\* bytewise order of two names
LexLess(a, b) ==
    IF a = <<>> THEN b # <<>>
    ELSE IF b = <<>> THEN FALSE
    ELSE IF Head(a) # Head(b) THEN Head(a) < Head(b)
    ELSE LexLess(Tail(a), Tail(b))

RECURSIVE OrderByName(_)
\* select(GentORM).order_by(GentORM.name), as ids
OrderByName(S) ==
    IF S = {} THEN <<>>
    ELSE LET m == CHOOSE x \in S :
                    \A y \in S \ {x} : LexLess(GentName(x), GentName(y))
         IN  <<m>> \o OrderByName(S \ {m})

EntriesAnyGig(av, g) ==
    LET ord == OrderByName(Gents)
    IN  [i \in 1..Len(ord) |->
            [gent_id |-> ord[i],
             status  |-> IF \E r \in av : r.gent_id = ord[i]
                         THEN (CHOOSE r \in av : r.gent_id = ord[i]).status
                         ELSE "no_reply"]]

\* the list get_availability returns for an existing gig
Entries(av, g) ==
    LET ord == OrderByName(Gents)
    IN  [i \in 1..Len(ord) |->
            [gent_id |-> ord[i], status |-> StatusOf(av, g, ord[i])]]

NoRequest ==
    [op |-> "none", gig |-> 0, gent |-> 0, status |-> "none",
     role |-> "none", actor |-> NoActor, gent_ids |-> {}, has_ids |-> FALSE,
     code |-> 0, detail |-> "", changed |-> FALSE, repeat |-> FALSE,
     result |-> <<>>]

Procs == {1, 2}

NoReq == [gig |-> 0, gent |-> 0, status |-> "none"]

NoSnap == [roster |-> {}, row |-> "none"]

\* gig.gents = the gents whose id is in ids
ReplaceRoster(gg, g, ids) ==
    {row \in gg : row[1] # g} \cup {<<g, p>> : p \in ids \cap Gents}

Request(op, g, p, s, role, actor) ==
    [NoRequest EXCEPT !.op = op, !.gig = g, !.gent = p, !.status = s,
                      !.role = role, !.actor = actor]

----------------------------------------------------------------------------
(* The state after startup(): tables created, seed_once run *)

Init ==
    /\ gigs = 1..NumGigs
    /\ gig_gent = seed_once
    /\ avail = {}
    /\ outbox = <<>>
    /\ last = NoRequest
    /\ calls = 0
    /\ written = [pair \in GigArgs \X (Gents \cup GentArgs) |-> "none"]
    /\ pc = [r \in Procs |-> "idle"]
    /\ req = [r \in Procs |-> NoReq]
    /\ snap = [r \in Procs |-> NoSnap]
    /\ base = [avail |-> {}, gig_gent |-> seed_once]
    /\ batch = <<>>

----------------------------------------------------------------------------
(* Request handlers, one request at a time *)

\* PUT /gigs/{gig_id}/availability
set_availability(g, p, s, role, actor) ==
    /\ calls < MaxCalls
    /\ calls' = calls + 1
    /\ LET rq   == Request("set", g, p, s, role, actor)
           auth == Authorize(role, actor, p, s)
           av2  == Upsert(avail, g, p, s)
           gg2  == sync_assignment_with_availability(gig_gent, g, p, s)
       IN  IF g \notin gigs
           THEN /\ last' = [rq EXCEPT !.code = 404, !.detail = "Gig not found"]
                /\ UNCHANGED <<avail, gig_gent, written>>
           ELSE IF auth # "ok"
           THEN /\ last' = [rq EXCEPT !.code = 403, !.detail = auth]
                /\ UNCHANGED <<avail, gig_gent, written>>
           ELSE /\ avail' = av2
                /\ gig_gent' = gg2
                /\ written' = [written EXCEPT ![<<g, p>>] = s]
                /\ last' = [rq EXCEPT
                        !.code = 200,
                        !.changed = (gg2 # gig_gent),
                        !.repeat = (/\ last.op = "set" /\ last.code = 200
                                    /\ last.gig = g /\ last.gent = p
                                    /\ last.status = s)]
    /\ UNCHANGED <<gigs, outbox, concVars>>

\* GET /gigs/{gig_id}/availability
get_availability(g) ==
    /\ calls < MaxCalls
    /\ calls' = calls + 1
    /\ LET rq == [NoRequest EXCEPT !.op = "get", !.gig = g]
       IN  IF g \notin gigs
           THEN last' = [rq EXCEPT !.code = 404, !.detail = "Gig not found"]
           ELSE last' = [rq EXCEPT !.code = 200, !.result = Entries(avail, g)]
    /\ UNCHANGED <<gigs, gig_gent, avail, outbox, written, concVars>>

\* PUT /gigs/{gig_id}; has_ids is patch.gent_ids is not None
update_gig(g, has_ids, ids) ==
    /\ calls < MaxCalls
    /\ calls' = calls + 1
    /\ LET rq == [NoRequest EXCEPT !.op = "update", !.gig = g,
                                   !.has_ids = has_ids, !.gent_ids = ids]
       IN  IF g \notin gigs
           THEN /\ last' = [rq EXCEPT !.code = 404, !.detail = "Gig not found"]
                /\ UNCHANGED gig_gent
           ELSE IF has_ids /\ ensure_gent_ids_exist(ids) # {}
           THEN /\ last' = [rq EXCEPT !.code = 400, !.detail = "Unknown gent ids"]
                /\ UNCHANGED gig_gent
           ELSE /\ gig_gent' = IF has_ids THEN ReplaceRoster(gig_gent, g, ids)
                               ELSE gig_gent
                /\ last' = [rq EXCEPT !.code = 200,
                                      !.changed = (gig_gent' # gig_gent)]
    /\ UNCHANGED <<gigs, avail, outbox, written, concVars>>

\* POST /gigs; the new row takes the next id, capped to the ids requests name
create_gig(ids) ==
    /\ calls < MaxCalls
    /\ Cardinality(gigs) + 1 \in GigArgs
    /\ calls' = calls + 1
    /\ LET new == Cardinality(gigs) + 1
           rq  == [NoRequest EXCEPT !.op = "create", !.has_ids = TRUE,
                                    !.gent_ids = ids]
       IN  IF ensure_gent_ids_exist(ids) # {}
           THEN /\ last' = [rq EXCEPT !.code = 400, !.detail = "Unknown gent ids"]
                /\ UNCHANGED <<gigs, gig_gent>>
           ELSE /\ gigs' = gigs \cup {new}
                /\ gig_gent' = ReplaceRoster(gig_gent, new, ids)
                /\ last' = [rq EXCEPT !.code = 201, !.gig = new,
                                      !.changed = (ids # {})]
    /\ UNCHANGED <<avail, outbox, written, concVars>>

\* a manager's actor_gent_id is never read by the handler: it is left absent
Next ==
    \/ \E g \in GigArgs, p \in GentArgs, s \in Status, actor \in ActorArgs :
          set_availability(g, p, s, "gent", actor)
    \/ \E g \in GigArgs, p \in GentArgs, s \in Status :
          set_availability(g, p, s, "manager", NoActor)
    \/ \E g \in GigArgs : get_availability(g)
    \/ \E g \in GigArgs, ids \in SUBSET GentArgs : update_gig(g, TRUE, ids)
    \/ \E g \in GigArgs : update_gig(g, FALSE, {})
    \/ \E ids \in SUBSET GentArgs : create_gig(ids)

Spec == Init /\ [][Next]_vars

----------------------------------------------------------------------------
(* Two set_availability requests, each in its own session (get_session),   *)
(* on the threadpool. A session reads committed rows; its writes are       *)
(* flushed and committed inside session.commit(), under SQLite's single    *)
(* writer lock, so no other session writes in between.                     *)

\* session.get(GigORM, gig_id), which also loads gig.gents (lazy="selectin"),
\* then the permission checks
BeginSet(r, g, p, s, role, actor) ==
    /\ pc[r] = "idle"
    /\ calls < MaxCalls
    /\ calls' = calls + 1
    /\ IF g \notin gigs \/ Authorize(role, actor, p, s) # "ok"
       THEN UNCHANGED concVars
       ELSE /\ pc' = [pc EXCEPT ![r] = "loaded"]
            /\ req' = [req EXCEPT ![r] = [gig |-> g, gent |-> p, status |-> s]]
            /\ snap' = [snap EXCEPT ![r] =
                           [roster |-> RosterOf(gig_gent, g), row |-> "none"]]
            /\ IF \A q \in Procs : pc[q] = "idle"
               THEN /\ base' = [avail |-> avail, gig_gent |-> gig_gent]
                    /\ batch' = <<req'[r]>>
               ELSE /\ batch' = Append(batch, req'[r])
                    /\ UNCHANGED base
    /\ UNCHANGED <<gigs, gig_gent, avail, outbox, last, written>>

\* the select of the pair's availability row
ReadAvail(r) ==
    /\ pc[r] = "loaded"
    /\ pc' = [pc EXCEPT ![r] = "read"]
    /\ snap' = [snap EXCEPT ![r].row =
                   IF FindAvail(avail, req[r].gig, req[r].gent) = {} THEN "none"
                   ELSE StatusOf(avail, req[r].gig, req[r].gent)]
    /\ UNCHANGED <<gigs, gig_gent, avail, outbox, last, calls, written,
                   req, base, batch>>

\* the upsert and sync_assignment_with_availability on what the session
\* read, then session.commit(): INSERT or UPDATE of the availability row
\* and INSERT or DELETE of the gig_gent row; a UNIQUE or PRIMARY KEY
\* violation or a DELETE matching no row raises and nothing is committed
Commit(r) ==
    /\ pc[r] = "read"
    /\ LET g == req[r].gig
           p == req[r].gent
           s == req[r].status
           is_member == p \in snap[r].roster
           insertRow == snap[r].row = "none"
           updateRow == snap[r].row # "none" /\ snap[r].row # s
           add == p \in Gents /\ s = "assigned" /\ ~is_member
           remove == p \in Gents /\ s # "assigned" /\ is_member
           raises == \/ insertRow /\ FindAvail(avail, g, p) # {}
                     \/ add /\ <<g, p>> \in gig_gent
                     \/ remove /\ <<g, p>> \notin gig_gent
       IN  IF raises
           THEN UNCHANGED <<avail, gig_gent>>
           ELSE /\ avail' = IF insertRow \/ updateRow
                            THEN Upsert(avail, g, p, s) ELSE avail
                /\ gig_gent' = IF add THEN gig_gent \cup {<<g, p>>}
                               ELSE IF remove THEN gig_gent \ {<<g, p>>}
                               ELSE gig_gent
    /\ pc' = [pc EXCEPT ![r] = "idle"]
    /\ req' = [req EXCEPT ![r] = NoReq]
    /\ snap' = [snap EXCEPT ![r] = NoSnap]
    /\ UNCHANGED <<gigs, outbox, last, calls, written, base, batch>>

NextConc ==
    \/ \E r \in Procs, g \in GigArgs, p \in GentArgs, s \in Status,
          actor \in ActorArgs : BeginSet(r, g, p, s, "gent", actor)
    \/ \E r \in Procs, g \in GigArgs, p \in GentArgs, s \in Status :
          BeginSet(r, g, p, s, "manager", NoActor)
    \/ \E r \in Procs : ReadAvail(r)
    \/ \E r \in Procs : Commit(r)

SpecConc == Init /\ [][NextConc]_vars

----------------------------------------------------------------------------
(* Properties *)

\* a handler has just answered the request recorded in last'
Handled(op) == calls' = calls + 1 /\ last'.op = op

TablesUnchanged ==
    gigs' = gigs /\ gig_gent' = gig_gent /\ avail' = avail /\ outbox' = outbox

\* Invariant I1 on given tables
I1(av, gg, gs) ==
    \A g \in gs, p \in Gents :
        <<g, p>> \in gg <=> StatusOf(av, g, p) = "assigned"

\* C1: after every successful set_availability call, each gent is in a
\* gig's roster exactly if the pair's status (missing read as no_reply) is
\* assigned
C1_I1AfterSet ==
    (last.op = "set" /\ last.code = 200) => I1(avail, gig_gent, gigs)

\* one request run alone on given tables
SerialStep(db, rq) ==
    [avail    |-> Upsert(db.avail, rq.gig, rq.gent, rq.status),
     gig_gent |-> sync_assignment_with_availability(
                      db.gig_gent, rq.gig, rq.gent, rq.status)]

\* C2: once two overlapping set_availability requests on one pair are both
\* over, the tables are those of running the two one after the other in
\* one of the two orders
C2_Linearized ==
    ( /\ \A r \in Procs : pc[r] = "idle"
      /\ Len(batch) = 2
      /\ batch[1].gig = batch[2].gig
      /\ batch[1].gent = batch[2].gent )
    => [avail |-> avail, gig_gent |-> gig_gent]
          \in {SerialStep(SerialStep(base, batch[1]), batch[2]),
               SerialStep(SerialStep(base, batch[2]), batch[1])}

\* C3 as stated: a gent-role request whose actor is not the target gent
\* (or is absent) is answered 403 whatever the gig id, and changes nothing
C3_ForbiddenWhateverGig ==
    [][(Handled("set") /\ last'.role = "gent" /\ last'.actor # last'.gent)
       => (last'.code = 403 /\ TablesUnchanged)]_vars

\* C3 amended: such a request is answered 403 when the gig exists and 404
\* when it does not, and changes no availability row and no roster
C3_Permission ==
    [][(Handled("set") /\ last'.role = "gent" /\ last'.actor # last'.gent)
       => ( /\ last'.code = IF last'.gig \in gigs THEN 403 ELSE 404
            /\ TablesUnchanged )]_vars

C3_Witness ==
    /\ last.op = "set" /\ last.role = "gent"
    /\ last.actor \notin {NoActor, last.gent}
    /\ last.code = 403
    /\ avail # {}

\* no step of a gent-role request puts a row into assigned or a gent into
\* a roster
GentNeverAssigns ==
    (Handled("set") /\ last'.role = "gent")
    => ( /\ gig_gent' \subseteq gig_gent
         /\ \A r \in avail' : r.status = "assigned" => r \in avail )

\* C4 as stated: a gent asking assigned for themselves is answered 403 and
\* changes nothing; gent-role requests never assign
C4_SelfAssignForbidden ==
    [][ /\ (Handled("set") /\ last'.role = "gent"
             /\ last'.actor = last'.gent /\ last'.status = "assigned")
           => (last'.code = 403 /\ TablesUnchanged)
        /\ GentNeverAssigns ]_vars

\* C4 amended: a gent asking assigned for themselves is answered 403 when
\* the gig exists (404 when it does not) and changes nothing; gent-role
\* requests never assign
C4_SelfAssign ==
    [][ /\ (Handled("set") /\ last'.role = "gent"
             /\ last'.actor = last'.gent /\ last'.status = "assigned")
           => ( /\ last'.code = IF last'.gig \in gigs THEN 403 ELSE 404
                /\ last'.gig \in gigs => last'.detail = "Only managers can assign"
                /\ TablesUnchanged )
        /\ GentNeverAssigns ]_vars

C4_Witness ==
    /\ last.op = "set" /\ last.role = "gent"
    /\ last.actor = last.gent /\ last.gent \in Gents
    /\ last.status = "assigned"
    /\ last.code = 403
    /\ <<last.gig, last.gent>> \notin gig_gent

\* C5: a request on an existing gig for an id of no gent fails, leaves no
\* availability row for the pair and leaves the rosters alone
C5_UnknownGentRejected ==
    [][(Handled("set") /\ last'.gig \in gigs /\ last'.gent \notin Gents)
       => ( /\ last'.code >= 400
            /\ FindAvail(avail', last'.gig, last'.gent) = {}
            /\ gig_gent' = gig_gent )]_vars

\* C6: after update_gig or create_gig has set a roster from gent_ids, every
\* gent it added or removed is in the roster exactly if the pair's status
\* is assigned
C6_RosterEditKeepsI1 ==
    [][((Handled("update") \/ Handled("create"))
         /\ last'.code \in {200, 201} /\ last'.has_ids)
       => \A p \in Gents :
             (<<last'.gig, p>> \in gig_gent') # (<<last'.gig, p>> \in gig_gent)
             => (<<last'.gig, p>> \in gig_gent'
                   <=> StatusOf(avail', last'.gig, p) = "assigned")]_vars

\* C7: the request (gig, gent, status) issued again right after it
\* succeeded changes no roster and no availability row, leaves exactly one
\* row for the pair, changes no membership, and succeeds again when issued
\* by the same actor
C7_Idempotent ==
    [][( /\ last.op = "set" /\ last.code = 200
         /\ Handled("set")
         /\ last'.gig = last.gig /\ last'.gent = last.gent
         /\ last'.status = last.status )
       => ( /\ TablesUnchanged
            /\ Cardinality(FindAvail(avail', last'.gig, last'.gent)) = 1
            /\ StatusOf(avail', last'.gig, last'.gent) = last'.status
            /\ ~last'.changed
            /\ (last'.role = last.role /\ last'.actor = last.actor)
                  => last'.code = 200 )]_vars

C7_Witness ==
    /\ last.op = "set" /\ last.code = 200 /\ last.repeat
    /\ last.status = "assigned"
    /\ <<last.gig, last.gent>> \in gig_gent

GigsChanged(p) == [type |-> "gigs_changed", gent_id |-> p]

\* C8: a successful set_availability that changes the gent's membership
\* broadcasts one gigs_changed event to that gent; any other
\* set_availability request broadcasts nothing
C8_NotifiesOnChange ==
    [][Handled("set")
       => IF last'.code = 200
             /\ (<<last'.gig, last'.gent>> \in gig_gent')
                  # (<<last'.gig, last'.gent>> \in gig_gent)
          THEN outbox' = Append(outbox, GigsChanged(last'.gent))
          ELSE outbox' = outbox]_vars

WrittenStatus(g, p) ==
    IF <<g, p>> \in DOMAIN written /\ written[<<g, p>>] # "none"
    THEN written[<<g, p>>]
    ELSE "no_reply"

\* C9: get_availability of a missing gig is answered 404; of an existing
\* gig, one entry per gent in order of name, each with the status
\* set_availability last wrote for the pair, no_reply when the pair has no
\* row
C9_GetAvailability ==
    last.op = "get"
    => IF last.gig \notin gigs
       THEN last.code = 404 /\ last.result = <<>>
       ELSE /\ last.code = 200
            /\ Len(last.result) = NumGents
            /\ {last.result[i].gent_id : i \in 1..Len(last.result)} = Gents
            /\ \A i, j \in 1..Len(last.result) :
                  i < j => LexLess(GentName(last.result[i].gent_id),
                                   GentName(last.result[j].gent_id))
            /\ \A i \in 1..Len(last.result) :
                  /\ last.result[i].status =
                        WrittenStatus(last.gig, last.result[i].gent_id)
                  /\ FindAvail(avail, last.gig, last.result[i].gent_id) = {}
                        => last.result[i].status = "no_reply"

C9_Witness ==
    /\ last.op = "get" /\ last.code = 200
    /\ \E r \in avail :
          /\ r.gig_id # last.gig
          /\ r.gent_id \in Gents
          /\ r.status # "no_reply"
          /\ \E i \in 1..Len(last.result) :
                /\ last.result[i].gent_id = r.gent_id
                /\ last.result[i].status = "no_reply"

\* C10: a successful set_availability(G, P, s) for an existing gent P leaves
\* one row for (G, P), with status s, and P in G's roster exactly if s is
\* assigned; membership changes only as an add on assigned or a removal
\* otherwise; every other roster row, every row of another pair and the
\* gigs are as before
C10_ReconcileFrame ==
    [][(Handled("set") /\ last'.code = 200 /\ last'.gent \in Gents)
       => LET g == last'.gig
              p == last'.gent
              s == last'.status
          IN  /\ Cardinality(FindAvail(avail', g, p)) = 1
              /\ StatusOf(avail', g, p) = s
              /\ <<g, p>> \in gig_gent' <=> s = "assigned"
              /\ last'.changed
                    <=> ((<<g, p>> \in gig_gent') # (<<g, p>> \in gig_gent))
              /\ gig_gent' \ {<<g, p>>} = gig_gent \ {<<g, p>>}
              /\ avail' \ FindAvail(avail', g, p) = avail \ FindAvail(avail, g, p)
              /\ gigs' = gigs]_vars

C10_Witness ==
    /\ last.op = "set" /\ last.code = 200 /\ last.gent \in Gents
    /\ last.changed
    /\ last.status # "assigned"
    /\ RosterOf(gig_gent, last.gig) # {}
    /\ \E r \in avail : r.gig_id # last.gig \/ r.gent_id # last.gent

====
